---- MODULE Spec2Model ----
(***************************************************************************)
(* A model of netatmodata.py: the NetatmoData session (station catalog,    *)
(* series fetcher, bulk fetch), its on-disk JSON cache and the decoding of *)
(* 'getmeasure' payloads into (times, values).                             *)
(*                                                                         *)
(* The remote side (lnetatmo.ClientAuth, lnetatmo.rawAPI) is the           *)
(* environment: an operation is the set of the outcomes it can have, one   *)
(* for every way the remote side can answer.                               *)
(***************************************************************************)
EXTENDS Integers, Sequences, FiniteSets, TLC

VARIABLES
    disk,           \* the cache directory self.datadir: file name -> file content
    stations,       \* self.stations: PyNone or a loaded list
    autorization,   \* self.autorization, the attribute __init__ sets (sic)
    authorization,  \* self.authorization, the attribute authorize() sets
    startdate,      \* self.startdate
    enddate,        \* self.enddate
    authCalls,      \* number of lnetatmo.ClientAuth() invocations of this session
    call,           \* the last top-level call: operation and arguments
    log,            \* what the last call did, in order: reads, writes, remote calls, sleeps
    ret,            \* what the last call returned (RetNothing when it raised)
    exc,            \* the exception the last call raised ("none" when it returned)
    payload,        \* decoding only: the measurements list handed to the decoder
    decoded,        \* decoding only: the decoder's outcome for payload
    probe,          \* module resolution only: a station and a measurement type
    resolved        \* module resolution only: the module_id the loop leaves for probe

vars == <<disk, stations, autorization, authorization, startdate, enddate,
          authCalls, call, log, ret, exc, payload, decoded, probe, resolved>>

sessionVars == <<disk, stations, autorization, authorization, startdate, enddate,
                 authCalls, call, log, ret, exc>>

decodeVars == <<payload, decoded>>

resolveVars == <<probe, resolved>>

(***************************************************************************)
(* Bounds of the model.                                                    *)
(***************************************************************************)
MaxBlocks == 2      \* sample blocks per decoded payload
MaxModules == 2     \* modules per station in the module resolution on its own
MaxVals == 3        \* value tuples per sample block
MaxAuthCalls == 2   \* ClientAuth() invocations per session are counted up to this

(***************************************************************************)
(* Python values.                                                          *)
(***************************************************************************)
PyNone == [tag |-> "None"]
PyList(v) == [tag |-> "list", val |-> v]

\* str(x) as the f-strings of the file names apply it to a module id
ModuleNone == "<None>"
Str(mid) == IF mid = ModuleNone THEN "None" ELSE mid

(***************************************************************************)
(* range(start, stop, step), as list concatenation consumes it.            *)
(* A zero step is a ValueError.                                            *)
(***************************************************************************)
RECURSIVE RangeFrom(_, _, _)
RangeFrom(cur, stop, step) ==
    IF (step > 0 /\ cur < stop) \/ (step < 0 /\ cur > stop)
    THEN <<cur>> \o RangeFrom(cur + step, stop, step)
    ELSE <<>>

RangeStepZero == "ValueError: range() arg 3 must not be zero"

\* a range whose stop is inclusive
PyRange_Inclusive(start, stop, step) ==
    IF step = 0 THEN [exc |-> RangeStepZero, val |-> <<>>]
    ELSE [exc |-> "none", val |-> RangeFrom(start, stop + step, step)]

\* a range that takes a zero step for an empty range
PyRange_ZeroIsEmpty(start, stop, step) ==
    [exc |-> "none", val |-> RangeFrom(start, stop, step)]

PyRange(start, stop, step) ==
    IF step = 0 THEN [exc |-> RangeStepZero, val |-> <<>>]
    ELSE [exc |-> "none", val |-> RangeFrom(start, stop, step)]

\* [m[0] for m in m["value"]]
FirstFields(value) == [i \in 1..Len(value) |-> value[i][1]]

(***************************************************************************)
(* The decoding loop of get_data: one iteration per sample block.          *)
(***************************************************************************)
\* a loop that puts each block's samples before the ones it already has
DecodeBlock_Prepend(acc, m) ==
    LET newtimes ==
            IF "step_time" \notin DOMAIN m
            THEN [exc |-> "none", val |-> <<m.beg_time>>]
            ELSE PyRange(m.beg_time,
                         m.beg_time + m.step_time * Len(m.value),
                         m.step_time)
    IN  IF newtimes.exc # "none"
        THEN [acc EXCEPT !.exc = newtimes.exc]
        ELSE [exc |-> "none",
              times |-> newtimes.val \o acc.times,
              values |-> FirstFields(m.value) \o acc.values]

DecodeBlock(acc, m) ==
    LET newtimes ==
            IF "step_time" \notin DOMAIN m
            THEN [exc |-> "none", val |-> <<m.beg_time>>]
            ELSE PyRange(m.beg_time,
                         m.beg_time + m.step_time * Len(m.value),
                         m.step_time)
    IN  IF newtimes.exc # "none"
        THEN [acc EXCEPT !.exc = newtimes.exc]
        ELSE [exc |-> "none",
              times |-> acc.times \o newtimes.val,
              values |-> acc.values \o FirstFields(m.value)]

RECURSIVE DecodeLoop(_, _, _)
DecodeLoop(measurements, i, acc) ==
    IF i > Len(measurements) \/ acc.exc # "none" THEN acc
    ELSE DecodeLoop(measurements, i + 1, DecodeBlock(acc, measurements[i]))

\* for m in measurements: ...; iterating None is a TypeError
Decode(measurements) ==
    IF measurements = PyNone
    THEN [exc |-> "TypeError", times |-> <<>>, values |-> <<>>]
    ELSE DecodeLoop(measurements.val, 1, [exc |-> "none", times |-> <<>>, values |-> <<>>])

(***************************************************************************)
(* Decoding on its own: every payload of up to MaxBlocks blocks.           *)
(***************************************************************************)
BegTimes == {1000, 2000}
StepTimes == {0, 60}
FirstValues == {0, 5}

SeqsUpTo(S, n) == UNION {[1..k -> S] : k \in 0..n}

\* n value tuples, of one field or of two, all with different first fields
ValueList(n, b) == [i \in 1..n |-> IF i % 2 = 0 THEN <<b + i, 99>> ELSE <<b + i>>]

ValueLists == {ValueList(n, b) : n \in 0..MaxVals, b \in FirstValues}

SampleBlocks ==
    [beg_time : BegTimes, value : ValueLists]
    \cup [beg_time : BegTimes, step_time : StepTimes, value : ValueLists]

NotDecoded == [exc |-> "pending", times |-> <<>>, values |-> <<>>]

Payloads == SeqsUpTo(SampleBlocks, MaxBlocks)

DecodePayload ==
    /\ decoded = NotDecoded
    /\ decoded' = Decode(PyList(payload))
    /\ UNCHANGED payload

(***************************************************************************)
(* The cache directory.  A file name is what the f-strings of get_stations *)
(* and get_data build; a file holds the JSON text json.dumps writes.       *)
(***************************************************************************)
area == [north |-> 55, west |-> -130, south |-> 15, east |-> -60]

\* f"stations-N{north}W{west}S{south}E{east}.json"
StationsFile(a) ==
    [kind |-> "stations", bounds |-> <<a.north, a.west, a.south, a.east>>, parts |-> <<>>]

\* f"{station_id}-{module_id}-{measurement_type}.json"
SeriesFile(station_id, module_id, measurement_type) ==
    [kind |-> "series", bounds |-> <<>>,
     parts |-> <<station_id, Str(module_id), measurement_type>>]

NoFile == [kind |-> "none", bounds |-> <<>>, parts |-> <<>>]

\* json.dumps / json.load: None is written as the text null and read back as None
JsonDumps(v) == IF v = PyNone THEN [text |-> "null", items |-> <<>>]
                ELSE [text |-> "array", items |-> v.val]
JsonLoad(f) == IF f.text = "null" THEN PyNone ELSE PyList(f.items)

WriteFile(d, fname, content) ==
    [n \in DOMAIN d \cup {fname} |-> IF n = fname THEN content ELSE d[n]]

(***************************************************************************)
(* What a call does, in order.                                             *)
(***************************************************************************)
Event(ev, file, api, nums) == [ev |-> ev, file |-> file, api |-> api, nums |-> nums]

EvHit(fname) == Event("hit", fname, <<>>, <<>>)       \* open() found the file
EvMiss(fname) == Event("miss", fname, <<>>, <<>>)     \* open() raised FileNotFoundError
EvWrite(fname) == Event("write", fname, <<>>, <<>>)
EvAuth == Event("auth", NoFile, <<>>, <<>>)           \* lnetatmo.ClientAuth()
EvApi(name, strs, nums) == Event("api", NoFile, <<name>> \o strs, nums)
EvSleep(secs) == Event("sleep", NoFile, <<>>, <<secs>>)
EvGetData(station_id) == Event("get_data", NoFile, <<station_id>>, <<>>)

(***************************************************************************)
(* The remote service: the answers lnetatmo.rawAPI can give.               *)
(***************************************************************************)
MeasurementTypes == {"pressure"}

StationA == [id |-> "s1",
             measures |-> <<[mid |-> "m1", type |-> <<"temperature", "humidity">>],
                            [mid |-> "m2", type |-> <<"temperature", "pressure">>],
                            [mid |-> "m4", type |-> <<"pressure">>]>>]
StationB == [id |-> "s2",
             measures |-> <<[mid |-> "m3", type |-> <<"temperature">>]>>]

StationIds == {"s1", "s2", "zz"}

PublicDataAnswers == {PyList(<<StationA, StationB>>), PyList(<<StationB>>)}

MeasureAnswers ==
    {PyList(<<>>),
     PyList(<<[beg_time |-> 1000, step_time |-> 60, value |-> <<<<7>>, <<8, 99>>>>],
              [beg_time |-> 2000, value |-> <<<<9>>>>]>>)}

Unset == [tag |-> "unset"]        \* the attribute does not exist yet
Handle == [tag |-> "ClientAuth"]  \* the object ClientAuth() returns

(***************************************************************************)
(* An outcome of running a piece of code from the session state m: the     *)
(* state it leaves, the exception it raised ("none": it returned) and      *)
(* what it returned.  A piece of code is the set of its outcomes.          *)
(***************************************************************************)
RetNothing == [tag |-> "nothing"]
Raised(m, e) == [m |-> m, exc |-> e, ret |-> RetNothing]
Returned(m, r) == [m |-> m, exc |-> "none", ret |-> r]

\* run F after every outcome of S that returned; an exception propagates
Then(S, F(_)) == UNION {IF r.exc # "none" THEN {r} ELSE F(r) : r \in S}

Min(a, b) == IF a < b THEN a ELSE b

(***************************************************************************)
(* NetatmoData.authorize                                                   *)
(***************************************************************************)
\* lnetatmo.ClientAuth(): a handle, or an authentication failure
ClientAuth(m) ==
    LET m1 == [m EXCEPT !.log = Append(@, EvAuth),
                        !.authCalls = Min(@ + 1, MaxAuthCalls)]
    IN  {Raised(m1, "AuthFailure"), Returned(m1, Handle)}

authorize(m) ==
    IF m.autorization = PyNone
    THEN Then(ClientAuth(m),
              LAMBDA r : {Returned([r.m EXCEPT !.authorization = r.ret], PyNone)})
    ELSE {Returned(m, PyNone)}

\* lnetatmo.rawAPI(self.authorization, name, parameters): raises, or returns the
\* body of the response, which is None when the response has none
rawAPI(m, name, strs, nums, answers) ==
    LET m1 == [m EXCEPT !.log = Append(@, EvApi(name, strs, nums))]
    IN  IF m.authorization = Unset THEN {Raised(m, "AttributeError")}
        ELSE {Raised(m1, "ApiError"), Returned(m1, PyNone)}
             \cup {Returned(m1, a) : a \in answers}

(***************************************************************************)
(* NetatmoData.get_stations                                                *)
(***************************************************************************)
BoolStr(b) == IF b THEN "True" ELSE "False"

\* log.info(f"... {len(self.stations)} stations ..."); return self.stations
ReturnStations(m) ==
    IF m.stations = PyNone THEN Raised(m, "TypeError") ELSE Returned(m, m.stations)

\* a download that opens the cache file for writing before it has the response
DownloadStations_WriteFirst(m, filter_stations, fname) ==
    Then(authorize([m EXCEPT !.disk = WriteFile(@, fname, JsonDumps(PyNone)),
                             !.log = Append(@, EvWrite(fname))]), LAMBDA a :
    Then(rawAPI(a.m, "getpublicdata", <<BoolStr(filter_stations)>>,
                <<area.north, area.east, area.south, area.west>>,
                PublicDataAnswers), LAMBDA r :
    {ReturnStations([r.m EXCEPT !.stations = r.ret,
                                !.disk = WriteFile(@, fname, JsonDumps(r.ret))])}))

\* the except FileNotFoundError branch: authorize, download, write the file
DownloadStations(m, filter_stations, fname) ==
    Then(authorize(m), LAMBDA a :
    Then(rawAPI(a.m, "getpublicdata", <<BoolStr(filter_stations)>>,
                <<area.north, area.east, area.south, area.west>>,
                PublicDataAnswers), LAMBDA r :
    {ReturnStations([r.m EXCEPT !.stations = r.ret,
                                !.disk = WriteFile(@, fname, JsonDumps(r.ret)),
                                !.log = Append(@, EvWrite(fname))])}))

\* a get_stations that does not look for the cache file
get_stations_NoCache(m, filter_stations) ==
    IF m.stations # PyNone THEN {Returned(m, m.stations)}
    ELSE DownloadStations([m EXCEPT !.log = Append(@, EvMiss(StationsFile(area)))],
                          filter_stations, StationsFile(area))

\* a get_stations without the early return of the stored list
get_stations_NoMemo(m, filter_stations) ==
    LET fname == StationsFile(area) IN
    IF fname \in DOMAIN m.disk
    THEN {ReturnStations([m EXCEPT !.stations = JsonLoad(m.disk[fname]),
                                   !.log = Append(@, EvHit(fname))])}
    ELSE DownloadStations([m EXCEPT !.log = Append(@, EvMiss(fname))],
                          filter_stations, fname)

get_stations(m, filter_stations) ==
    IF m.stations # PyNone THEN {Returned(m, m.stations)}
    ELSE
    LET fname == StationsFile(area) IN
    IF fname \in DOMAIN m.disk
    THEN {ReturnStations([m EXCEPT !.stations = JsonLoad(m.disk[fname]),
                                   !.log = Append(@, EvHit(fname))])}
    ELSE DownloadStations([m EXCEPT !.log = Append(@, EvMiss(fname))],
                          filter_stations, fname)

(***************************************************************************)
(* NetatmoData.get_data                                                    *)
(***************************************************************************)
\* [s for s in self.stations if s["_id"] == station_id]
StationsWithId(stationlist, station_id) ==
    SelectSeq(stationlist, LAMBDA s : s.id = station_id)

\* measurement_type in measure["type"]
HasType(measure, measurement_type) ==
    \E i \in 1..Len(measure.type) : measure.type[i] = measurement_type

\* for mid, measure in station["measures"].items(): first match, else None
RECURSIVE ResolveFrom(_, _, _)
ResolveFrom(measures, i, measurement_type) ==
    IF i > Len(measures) THEN ModuleNone
    ELSE IF HasType(measures[i], measurement_type) THEN measures[i].mid
    ELSE ResolveFrom(measures, i + 1, measurement_type)

\* a resolution without the break: the last matching module wins
ResolveModule_Last(station, measurement_type) ==
    ResolveFrom([i \in 1..Len(station.measures) |->
                     station.measures[Len(station.measures) + 1 - i]],
                1, measurement_type)

ResolveModule(station, measurement_type) ==
    ResolveFrom(station.measures, 1, measurement_type)

(***************************************************************************)
(* Module resolution on its own: every station of up to MaxModules modules *)
(* with different ids, each with a list of up to two types.                *)
(***************************************************************************)
ModuleIds == {"m1", "m2", "m3"}
ProbeTypes == {"pressure", "temperature"}
TypeLists == UNION {[1..k -> ProbeTypes] : k \in 0..2}

MeasuresMaps ==
    {ms \in UNION {[1..k -> [mid : ModuleIds, type : TypeLists]] : k \in 0..MaxModules} :
        \A i, j \in 1..Len(ms) : ms[i].mid = ms[j].mid => i = j}

NoProbe == [station |-> [id |-> "", measures |-> <<>>], measurement_type |-> ""]
NotResolved == "<pending>"

ResolveProbe ==
    /\ resolved = NotResolved
    /\ resolved' = ResolveModule(probe.station, probe.measurement_type)
    /\ UNCHANGED probe

\* datetime.timestamp() of a day of January 2022, UTC
Timestamp(day) == 1640995200 + (day - 1) * 86400

PyNum(x) == [tag |-> "num", val |-> x]

\* if ratelimit is not None: sleep(ratelimit)
\* a fetch that never sleeps
SleepIfSet_Never(m, ratelimit) == m

SleepIfSet(m, ratelimit) ==
    IF ratelimit # PyNone THEN [m EXCEPT !.log = Append(@, EvSleep(ratelimit.val))]
    ELSE m

\* the "if measurements is None" branch of get_data: authorize, query, write, sleep
FetchMeasurements(m, station_id, module_id, measurement_type, ratelimit, jsonfile) ==
    Then(authorize(m), LAMBDA a :
    Then(rawAPI(a.m, "getmeasure",
                <<station_id, module_id, measurement_type, "max">>,
                <<Timestamp(m.startdate), Timestamp(m.enddate)>>,
                MeasureAnswers), LAMBDA r :
    {Returned(SleepIfSet([r.m EXCEPT !.disk = WriteFile(@, jsonfile, JsonDumps(r.ret)),
                                     !.log = Append(@, EvWrite(jsonfile))],
                         ratelimit),
              r.ret)}))

\* the decoding loop and the return of get_data
DecodeAndReturn(m, measurements) ==
    LET d == Decode(measurements)
    IN  IF d.exc # "none" THEN Raised(m, d.exc)
        ELSE Returned(m, [tag |-> "tuple", times |-> d.times, values |-> d.values])

\* a cache read that takes an entry only in a session whose range starts on day 15
LoadMeasurements_ByRange(m, jsonfile) ==
    IF jsonfile \in DOMAIN m.disk /\ m.startdate = 15
    THEN Returned([m EXCEPT !.log = Append(@, EvHit(jsonfile))],
                  JsonLoad(m.disk[jsonfile]))
    ELSE Returned([m EXCEPT !.log = Append(@, EvMiss(jsonfile))], PyNone)

\* the try: json.load(f) / except FileNotFoundError: pass of get_data
LoadMeasurements(m, jsonfile) ==
    IF jsonfile \in DOMAIN m.disk
    THEN Returned([m EXCEPT !.log = Append(@, EvHit(jsonfile))],
                  JsonLoad(m.disk[jsonfile]))
    ELSE Returned([m EXCEPT !.log = Append(@, EvMiss(jsonfile))], PyNone)

\* a get_data that reads the cache entry and fetches all the same
GetSeries_Refetch(m, station_id, module_id, measurement_type, ratelimit) ==
    LET jsonfile == SeriesFile(station_id, module_id, measurement_type)
        c == LoadMeasurements(m, jsonfile)
    IN  Then(FetchMeasurements(c.m, station_id, module_id, measurement_type,
                               ratelimit, jsonfile),
             LAMBDA f : {DecodeAndReturn(f.m, f.ret)})

\* get_data from "measurements = None" on: cache, else fetch; then decode
GetSeries(m, station_id, module_id, measurement_type, ratelimit) ==
    LET jsonfile == SeriesFile(station_id, module_id, measurement_type)
        c == LoadMeasurements(m, jsonfile)
    IN  Then(IF c.ret = PyNone
             THEN FetchMeasurements(c.m, station_id, module_id, measurement_type,
                                    ratelimit, jsonfile)
             ELSE {c},
             LAMBDA f : {DecodeAndReturn(f.m, f.ret)})

StationNotFound == "ValueError: Station not found."

\* a get_data that goes on without a module id when it finds no station
GetDataLoaded_NoLookup(m, station_id, measurement_type, ratelimit) ==
    LET station == StationsWithId(m.stations.val, station_id) IN
    GetSeries(m, station_id,
              IF Len(station) = 0 THEN ModuleNone
              ELSE ResolveModule(station[1], measurement_type),
              measurement_type, ratelimit)

\* the body of get_data once self.stations is a list
GetDataLoaded(m, station_id, measurement_type, ratelimit) ==
    LET station == StationsWithId(m.stations.val, station_id) IN
    IF Len(station) = 0 THEN {Raised(m, StationNotFound)}
    ELSE GetSeries(m, station_id, ResolveModule(station[1], measurement_type),
                   measurement_type, ratelimit)

\* if self.stations is None: self.get_stations()
EnsureStations(m) ==
    IF m.stations = PyNone THEN get_stations(m, TRUE) ELSE {Returned(m, PyNone)}

\* a get_data that works on the list get_stations returned and leaves self.stations
\* as it found it
get_data_LocalList(m, station_id, measurement_type, ratelimit) ==
    Then(EnsureStations(m), LAMBDA s :
         {[r EXCEPT !.m.stations = m.stations] :
              r \in GetDataLoaded(s.m, station_id, measurement_type, ratelimit)})

get_data(m, station_id, measurement_type, ratelimit) ==
    Then(EnsureStations(m),
         LAMBDA s : GetDataLoaded(s.m, station_id, measurement_type, ratelimit))

(***************************************************************************)
(* NetatmoData.get_all_data                                                *)
(***************************************************************************)
RateLimit == 8

\* a loop that goes on to the next station when get_data raises
RECURSIVE GetAllFrom_Continue(_, _, _, _)
GetAllFrom_Continue(m, i, measurement_type, acc) ==
    IF i > Len(m.stations.val) THEN {Returned(m, [tag |-> "list", val |-> acc])}
    ELSE LET sid == m.stations.val[i].id
         IN  UNION {GetAllFrom_Continue(g.m, i + 1, measurement_type,
                                        Append(acc, g.ret)) :
                        g \in get_data([m EXCEPT !.log = Append(@, EvGetData(sid))],
                                       sid, measurement_type, PyNum(RateLimit))}

\* the list comprehension, from the i-th station on; acc holds the results so far
RECURSIVE GetAllFrom(_, _, _, _)
GetAllFrom(m, i, measurement_type, acc) ==
    IF i > Len(m.stations.val) THEN {Returned(m, [tag |-> "list", val |-> acc])}
    ELSE LET sid == m.stations.val[i].id
         IN  Then(get_data([m EXCEPT !.log = Append(@, EvGetData(sid))],
                           sid, measurement_type, PyNum(RateLimit)),
                  LAMBDA g : GetAllFrom(g.m, i + 1, measurement_type,
                                        Append(acc, g.ret)))

\* a bulk fetch that starts at the second station
get_all_data_SkipFirst(m, measurement_type) ==
    Then(EnsureStations(m), LAMBDA s : GetAllFrom(s.m, 2, measurement_type, <<>>))

get_all_data(m, measurement_type) ==
    Then(EnsureStations(m), LAMBDA s : GetAllFrom(s.m, 1, measurement_type, <<>>))

(***************************************************************************)
(* The session: one action per top-level call.                             *)
(***************************************************************************)
StartDays == {15, 16}
EndDay == 17

Self ==
    [disk |-> disk, stations |-> stations, autorization |-> autorization,
     authorization |-> authorization, startdate |-> startdate, enddate |-> enddate,
     authCalls |-> authCalls, log |-> <<>>]

NoCall == [op |-> "none", station_id |-> "", measurement_type |-> "",
           ratelimit |-> PyNone, filter_stations |-> TRUE]

\* the state after a call that ended as r
Finish(r, c) ==
    /\ disk' = r.m.disk
    /\ stations' = r.m.stations
    /\ autorization' = r.m.autorization
    /\ authorization' = r.m.authorization
    /\ authCalls' = r.m.authCalls
    /\ log' = r.m.log
    /\ ret' = r.ret
    /\ exc' = r.exc
    /\ call' = c
    /\ UNCHANGED <<startdate, enddate, payload, decoded, probe, resolved>>

Init ==
    /\ disk = <<>>
    /\ stations = PyNone
    /\ autorization = PyNone
    /\ authorization = Unset
    /\ startdate \in StartDays
    /\ enddate = EndDay
    /\ authCalls = 0
    /\ call = NoCall
    /\ log = <<>>
    /\ ret = RetNothing
    /\ exc = "none"
    /\ payload = <<>>
    /\ decoded = NotDecoded
    /\ probe = NoProbe
    /\ resolved = NotResolved

\* NetatmoData(area, startdate, enddate, name): a new session on the same directory
NewSession ==
    /\ stations' = PyNone
    /\ autorization' = PyNone
    /\ authorization' = Unset
    /\ startdate' \in StartDays
    /\ enddate' = EndDay
    /\ authCalls' = 0
    /\ call' = NoCall
    /\ log' = <<>>
    /\ ret' = RetNothing
    /\ exc' = "none"
    /\ UNCHANGED <<disk, payload, decoded, probe, resolved>>

GetStationsCall ==
    \E filter_stations \in BOOLEAN :
        \E r \in get_stations(Self, filter_stations) :
            Finish(r, [NoCall EXCEPT !.op = "get_stations",
                                     !.filter_stations = filter_stations])

GetDataCall ==
    \E station_id \in StationIds, measurement_type \in MeasurementTypes,
       ratelimit \in {PyNone, PyNum(RateLimit)} :
        \E r \in get_data(Self, station_id, measurement_type, ratelimit) :
            Finish(r, [NoCall EXCEPT !.op = "get_data", !.station_id = station_id,
                                     !.measurement_type = measurement_type,
                                     !.ratelimit = ratelimit])

GetAllDataCall ==
    \E measurement_type \in MeasurementTypes :
        \E r \in get_all_data(Self, measurement_type) :
            Finish(r, [NoCall EXCEPT !.op = "get_all_data",
                                     !.measurement_type = measurement_type])

Next ==
    \/ NewSession
    \/ GetStationsCall
    \/ GetDataCall
    \/ GetAllDataCall

Spec == Init /\ [][Next]_vars

(***************************************************************************)
(* Decoding on its own: a payload is handed to the decoding loop.          *)
(***************************************************************************)
DecodeInit ==
    /\ payload \in Payloads
    /\ decoded = NotDecoded
    /\ disk = <<>>
    /\ stations = PyNone
    /\ autorization = PyNone
    /\ authorization = Unset
    /\ startdate \in StartDays
    /\ enddate = EndDay
    /\ authCalls = 0
    /\ call = NoCall
    /\ log = <<>>
    /\ ret = RetNothing
    /\ exc = "none"
    /\ probe = NoProbe
    /\ resolved = NotResolved

DecodeNext == DecodePayload /\ UNCHANGED <<sessionVars, resolveVars>>

DecodeSpec == DecodeInit /\ [][DecodeNext]_vars

ResolveInit ==
    /\ probe \in [station : {[id |-> "s1", measures |-> ms] : ms \in MeasuresMaps},
                  measurement_type : ProbeTypes]
    /\ resolved = NotResolved
    /\ payload = <<>>
    /\ decoded = NotDecoded
    /\ disk = <<>>
    /\ stations = PyNone
    /\ autorization = PyNone
    /\ authorization = Unset
    /\ startdate \in StartDays
    /\ enddate = EndDay
    /\ authCalls = 0
    /\ call = NoCall
    /\ log = <<>>
    /\ ret = RetNothing
    /\ exc = "none"

ResolveNext == ResolveProbe /\ UNCHANGED <<sessionVars, decodeVars>>

ResolveSpec == ResolveInit /\ [][ResolveNext]_vars

(***************************************************************************)
(* Reading the log of the last call.                                       *)
(***************************************************************************)
Positions(P(_)) == {i \in 1..Len(log) : P(log[i])}
Count(P(_)) == Cardinality(Positions(P))

IsAuth(e) == e.ev = "auth"
IsSleep(e) == e.ev = "sleep"
IsApi(e) == e.ev = "api"
IsGetMeasure(e) == e.ev = "api" /\ e.api[1] = "getmeasure"
IsGetPublicData(e) == e.ev = "api" /\ e.api[1] = "getpublicdata"
IsSeriesHit(e) == e.ev = "hit" /\ e.file.kind = "series"
IsSeriesMiss(e) == e.ev = "miss" /\ e.file.kind = "series"
IsSeriesFile(e) == e.file.kind = "series"
IsWrite(e) == e.ev = "write"
IsRemote(e) == e.ev \in {"auth", "api"}

StationsLoaded == stations # PyNone
StationsCached == StationsFile(area) \in DOMAIN disk

(***************************************************************************)
(* C1: in get_data with a rate limit r, a call that found the series cache *)
(* entry issues no authorization, no 'getmeasure' and no sleep; a call     *)
(* that did not find it and returned issued exactly one 'getmeasure' and   *)
(* then slept for r exactly once; no call sleeps without a 'getmeasure'.   *)
(***************************************************************************)
C1_HitNoFetchMissOneFetchOneSleep ==
    (call.op = "get_data" /\ call.ratelimit # PyNone) =>
        /\ Count(IsSeriesHit) > 0 =>
              Count(IsAuth) = 0 /\ Count(IsGetMeasure) = 0 /\ Count(IsSleep) = 0
        /\ (Count(IsSeriesMiss) > 0 /\ exc = "none") =>
              /\ Count(IsGetMeasure) = 1
              /\ Count(IsSleep) = 1
              /\ \A i \in Positions(IsSleep) :
                    /\ log[i].nums = <<call.ratelimit.val>>
                    /\ \A j \in Positions(IsGetMeasure) : j < i
        /\ Count(IsSleep) > 0 => Count(IsGetMeasure) > 0

(***************************************************************************)
(* C2: a get_stations call made while the station-list cache file exists   *)
(* issues no remote call and leaves the file as it is, and when it returns *)
(* it returns the list the file holds; no call changes an existing         *)
(* station-list file.  So two such calls return identical lists.           *)
(***************************************************************************)
C2_CachedStationsIdempotent ==
    [][StationsCached =>
        /\ StationsFile(area) \in DOMAIN disk'
        /\ disk'[StationsFile(area)] = disk[StationsFile(area)]
        /\ call'.op = "get_stations" =>
              /\ \A i \in 1..Len(log') : ~IsRemote(log'[i])
              /\ disk' = disk
              /\ exc' = "none" => ret' = JsonLoad(disk[StationsFile(area)])]_vars

\* a get_stations call has returned the list of the cache file it found
C2_Witness ==
    /\ call.op = "get_stations"
    /\ exc = "none"
    /\ log = <<EvHit(StationsFile(area))>>
    /\ ret = JsonLoad(disk[StationsFile(area)])

(***************************************************************************)
(* C3: get_data for a station id that is not in the loaded station list    *)
(* raises the station-not-found error and does nothing else: no remote     *)
(* call, no cache read or write, no sleep, the station list unchanged.     *)
(* When the call had to load the list first, it touches no series cache    *)
(* entry, issues no 'getmeasure', does not sleep and keeps the loaded list.*)
(***************************************************************************)
HasStation(stationlist, station_id) == Len(StationsWithId(stationlist.val, station_id)) > 0

C3_UnknownStation ==
    [][call'.op = "get_data" =>
        /\ (StationsLoaded /\ ~HasStation(stations, call'.station_id)) =>
              /\ exc' = StationNotFound
              /\ log' = <<>>
              /\ UNCHANGED <<disk, stations, authorization, authCalls>>
        /\ exc' = StationNotFound =>
              /\ stations' # PyNone
              /\ ~HasStation(stations', call'.station_id)
              /\ \A i \in 1..Len(log') :
                    ~IsSeriesFile(log'[i]) /\ ~IsGetMeasure(log'[i]) /\ ~IsSleep(log'[i])
              /\ \A f \in DOMAIN disk' : f.kind = "series" => f \in DOMAIN disk]_vars

\* get_data has failed for an id the loaded list does not hold
C3_Witness ==
    /\ call.op = "get_data"
    /\ exc = StationNotFound
    /\ stations # PyNone
    /\ log = <<>>

(***************************************************************************)
(* C4: whenever decoding returns, the times and the values it returns have *)
(* the same length, whatever the blocks of the payload hold.               *)
(***************************************************************************)
C4_EqualLengths ==
    decoded.exc = "none" => Len(decoded.times) = Len(decoded.values)

(***************************************************************************)
(* C5: decoding a block with step_time = step > 0, beg_time = beg and n    *)
(* values appends, to what the blocks before it gave, the times beg,       *)
(* beg+step, ..., beg+(n-1)*step and the first field of each value tuple.  *)
(***************************************************************************)
IsStepped(b) == "step_time" \in DOMAIN b

C5_StepExpansion ==
    (Len(payload) > 0 /\ decoded.exc = "none") =>
        LET b == payload[Len(payload)]
            n == Len(b.value)
            before == Decode(PyList(SubSeq(payload, 1, Len(payload) - 1)))
        IN  (IsStepped(b) /\ b.step_time > 0) =>
                /\ decoded.times =
                      before.times \o [i \in 1..n |-> b.beg_time + (i - 1) * b.step_time]
                /\ decoded.values = before.values \o [i \in 1..n |-> b.value[i][1]]

\* the block {beg_time: 1000, step_time: 60, value: [[1],[2,99],[3]]} has been decoded
C5_Witness ==
    /\ Len(payload) = 1
    /\ IsStepped(payload[1])
    /\ payload[1].step_time = 60
    /\ decoded.exc = "none"
    /\ decoded.times = <<1000, 1060, 1120>>
    /\ decoded.values = <<1, 2, 3>>

(***************************************************************************)
(* C6: whenever decoding returns, its result is the concatenation, in      *)
(* payload order, of what each block decodes to on its own, and there are  *)
(* as many times as the blocks have samples (a stepped block its number of *)
(* values, a single-point block one); so are there values when every       *)
(* single-point block carries one value.                                   *)
(***************************************************************************)
SampleCount(b) == IF IsStepped(b) THEN Len(b.value) ELSE 1

RECURSIVE SumSamples(_, _)
SumSamples(p, i) == IF i > Len(p) THEN 0 ELSE SampleCount(p[i]) + SumSamples(p, i + 1)

RECURSIVE ConcatTimes(_, _)
ConcatTimes(p, i) ==
    IF i > Len(p) THEN <<>>
    ELSE Decode(PyList(<<p[i]>>)).times \o ConcatTimes(p, i + 1)

RECURSIVE ConcatValues(_, _)
ConcatValues(p, i) ==
    IF i > Len(p) THEN <<>>
    ELSE Decode(PyList(<<p[i]>>)).values \o ConcatValues(p, i + 1)

SinglePointsWellFormed(p) ==
    \A i \in 1..Len(p) : ~IsStepped(p[i]) => Len(p[i].value) = 1

C6_Concatenation ==
    decoded.exc = "none" =>
        /\ decoded.times = ConcatTimes(payload, 1)
        /\ decoded.values = ConcatValues(payload, 1)
        /\ Len(decoded.times) = SumSamples(payload, 1)
        /\ SinglePointsWellFormed(payload) =>
              Len(decoded.values) = SumSamples(payload, 1)

\* a single-point block followed by a stepped block of later times has been decoded
C6_Witness ==
    /\ Len(payload) = 2
    /\ ~IsStepped(payload[1]) /\ Len(payload[1].value) = 1
    /\ payload[1].beg_time = 2000
    /\ IsStepped(payload[2]) /\ Len(payload[2].value) = 2
    /\ payload[2].beg_time = 1000
    /\ decoded.exc = "none"
    /\ Len(decoded.times) = 3
    /\ decoded.times[1] = 2000

(***************************************************************************)
(* C7: get_data for a station of the loaded list none of whose modules     *)
(* reports the requested type returns ([], []) and does not raise.         *)
(***************************************************************************)
EmptySeries == [tag |-> "tuple", times |-> <<>>, values |-> <<>>]

ResolvesToNoModule(stationlist, station_id, measurement_type) ==
    /\ stationlist # PyNone
    /\ HasStation(stationlist, station_id)
    /\ ResolveModule(StationsWithId(stationlist.val, station_id)[1], measurement_type)
           = ModuleNone

C7_NoModuleEmptySeries ==
    (call.op = "get_data"
         /\ ResolvesToNoModule(stations, call.station_id, call.measurement_type)) =>
        exc = "none" /\ ret = EmptySeries

(***************************************************************************)
(* C8: a session invokes lnetatmo.ClientAuth at most once.                 *)
(***************************************************************************)
C8_AuthAtMostOnce == authCalls <= 1

(***************************************************************************)
(* C9: a get_stations call fails with the authentication error exactly     *)
(* when ClientAuth was the last thing it did; such a call has issued no    *)
(* 'getpublicdata', has written no file and leaves the station list unset  *)
(* and the cache file absent, and the next get_stations call looks for the *)
(* file and authorizes again.                                              *)
(***************************************************************************)
C9_AuthFailureLeavesNothing ==
    [][/\ call'.op = "get_stations" =>
            /\ exc' = "AuthFailure" <=> (log' # <<>> /\ IsAuth(log'[Len(log')]))
            /\ exc' = "AuthFailure" =>
                  /\ \A i \in 1..Len(log') : ~IsApi(log'[i]) /\ ~IsWrite(log'[i])
                  /\ disk' = disk
                  /\ stations' = PyNone
                  /\ StationsFile(area) \notin DOMAIN disk'
       /\ (call.op = "get_stations" /\ exc = "AuthFailure"
               /\ call'.op = "get_stations") =>
            /\ Len(log') >= 2
            /\ log'[1] = EvMiss(StationsFile(area))
            /\ log'[2] = EvAuth]_vars

\* a get_stations call has failed at ClientAuth after not finding the cache file
C9_Witness ==
    /\ call.op = "get_stations"
    /\ exc = "AuthFailure"
    /\ log = <<EvMiss(StationsFile(area)), EvAuth>>
    /\ stations = PyNone

(***************************************************************************)
(* C10: when get_all_data returns, its result has one entry per station of *)
(* the station list, the i-th being what get_data gives for the i-th       *)
(* station (the decoding of that station's cache entry); get_data ran once *)
(* per station, in list order, and every series file access and every      *)
(* 'getmeasure' happened during the get_data of the station it is for.     *)
(***************************************************************************)
GetDataMarks == SelectSeq(log, LAMBDA e : e.ev = "get_data")

\* the number of get_data calls begun up to position p of the log
Owner(p) == Cardinality({q \in 1..p : log[q].ev = "get_data"})

SeriesOf(station, measurement_type) ==
    DecodeAndReturn(Self, JsonLoad(disk[SeriesFile(station.id,
                                                   ResolveModule(station, measurement_type),
                                                   measurement_type)])).ret

C10_OnePerStationInOrder ==
    (call.op = "get_all_data" /\ exc = "none") =>
        /\ stations # PyNone
        /\ ret.tag = "list"
        /\ Len(ret.val) = Len(stations.val)
        /\ Len(GetDataMarks) = Len(stations.val)
        /\ \A i \in 1..Len(stations.val) :
              /\ GetDataMarks[i].api = <<stations.val[i].id>>
              /\ SeriesFile(stations.val[i].id,
                            ResolveModule(stations.val[i], call.measurement_type),
                            call.measurement_type) \in DOMAIN disk
              /\ ret.val[i] = SeriesOf(stations.val[i], call.measurement_type)
        /\ \A p \in 1..Len(log) :
              /\ IsSeriesFile(log[p]) =>
                    Owner(p) >= 1 /\ log[p].file.parts[1] = stations.val[Owner(p)].id
              /\ IsGetMeasure(log[p]) =>
                    Owner(p) >= 1 /\ log[p].api[2] = stations.val[Owner(p)].id

\* a bulk fetch over two stations has returned two different series, one fetched live
C10_Witness ==
    /\ call.op = "get_all_data"
    /\ exc = "none"
    /\ Len(ret.val) = 2
    /\ ret.val[1] # ret.val[2]
    /\ Count(IsGetMeasure) > 0

(***************************************************************************)
(* C11: a call that issues a 'getmeasure' has the station list loaded: it  *)
(* was loaded before the call, or the call read it from the cache file or  *)
(* downloaded and wrote it before its first 'getmeasure'.                  *)
(***************************************************************************)
IsStationsLoad(e) == e.file.kind = "stations" /\ e.ev \in {"hit", "write"}

C11_StationsBeforeSeries ==
    [][(\E j \in 1..Len(log') : IsGetMeasure(log'[j])) =>
        /\ stations' # PyNone
        /\ stations = PyNone =>
              \A j \in 1..Len(log') :
                  IsGetMeasure(log'[j]) => \E i \in 1..(j - 1) : IsStationsLoad(log'[i])]_vars

\* a get_data call has loaded the station list and then issued a 'getmeasure'
C11_Witness ==
    /\ call.op = "get_data"
    /\ \E i, j \in 1..Len(log) : i < j /\ IsStationsLoad(log[i]) /\ IsGetMeasure(log[j])
    /\ stations # PyNone

(***************************************************************************)
(* C12: once the station list of a session is loaded, every get_stations   *)
(* call, with either filter flag, returns that list and does nothing else  *)
(* (no cache read or write, no authorization, no remote call); no call of  *)
(* the session changes the loaded list; a call issues 'getpublicdata' at   *)
(* most once, only while the list is unset and the cache file is missing,  *)
(* and when the remote call returns the cache file exists afterwards, so   *)
(* that 'getpublicdata' returns at most once per session.                  *)
(***************************************************************************)
C12_LoadedListIsFinal ==
    [][/\ (StationsLoaded /\ call'.op # "none") => stations' = stations
       /\ (StationsLoaded /\ call'.op = "get_stations") =>
             /\ ret' = stations
             /\ exc' = "none"
             /\ log' = <<>>
             /\ UNCHANGED <<disk, autorization, authorization, authCalls>>
       /\ (call'.op # "none" /\ \E i \in 1..Len(log') : IsGetPublicData(log'[i])) =>
             /\ ~StationsLoaded
             /\ ~StationsCached
             /\ Cardinality({i \in 1..Len(log') : IsGetPublicData(log'[i])}) = 1
             /\ exc' # "ApiError" => StationsFile(area) \in DOMAIN disk']_vars

\* a get_stations call without the filter has returned the loaded list untouched
C12_Witness ==
    /\ call.op = "get_stations"
    /\ ~call.filter_stations
    /\ StationsLoaded
    /\ ret = stations
    /\ log = <<>>

(***************************************************************************)
(* C13, as stated: during one get_all_data call a sleep of the rate limit  *)
(* lies between any two consecutive remote API calls, 'getpublicdata'      *)
(* included.                                                               *)
(***************************************************************************)
SleepBetween(i, j) ==
    \E k \in (i + 1)..(j - 1) : IsSleep(log[k]) /\ log[k].nums = <<RateLimit>>

C13_DelayBetweenApiCalls ==
    call.op = "get_all_data" =>
        \A i, j \in Positions(IsApi) : i < j => SleepBetween(i, j)

(***************************************************************************)
(* C13, amended: during one get_all_data call a sleep of the rate limit    *)
(* lies between any two consecutive 'getmeasure' calls; no sleep precedes  *)
(* the first 'getmeasure', so that none separates a 'getpublicdata' of the *)
(* same call from it.                                                      *)
(***************************************************************************)
C13_DelayBetweenGetMeasure ==
    call.op = "get_all_data" =>
        /\ \A i, j \in Positions(IsGetMeasure) : i < j => SleepBetween(i, j)
        /\ \A i \in Positions(IsGetMeasure), k \in Positions(IsSleep) :
              k < i => \E j \in Positions(IsGetMeasure) : j < k

\* a bulk fetch has downloaded the station list, issued two 'getmeasure' calls and returned
C13_Witness ==
    /\ call.op = "get_all_data"
    /\ exc = "none"
    /\ Count(IsGetPublicData) = 1
    /\ Count(IsGetMeasure) = 2
    /\ \A i, j \in Positions(IsGetMeasure) : i < j => SleepBetween(i, j)

(***************************************************************************)
(* C15: a failed remote response is never written to the cache: a call     *)
(* that ends in the exception of its remote call or authorization has it   *)
(* as its last event, with no write after it, and no call creates or       *)
(* overwrites a cache file with a null response.                           *)
(***************************************************************************)
C15_FailedResponseNotCached ==
    [][call'.op # "none" =>
        /\ exc' \in {"ApiError", "AuthFailure"} =>
              log' # <<>> /\ IsRemote(log'[Len(log')])
        /\ \A f \in DOMAIN disk' :
              (f \notin DOMAIN disk \/ disk'[f] # disk[f]) =>
                  JsonLoad(disk'[f]) # PyNone]_vars

(***************************************************************************)
(* C14: a get_data call that finds the series cache entry an earlier call  *)
(* wrote (in this or an earlier session) issues no authorization, no       *)
(* remote call and no sleep, leaves the entry as it is, and ends as the    *)
(* decoding of the stored payload ends: with the same (times, values) or   *)
(* the same exception.  The entry is written before the payload is         *)
(* decoded: a call that fetched and failed in decoding has stored it.      *)
(***************************************************************************)
C14_StoredPayloadIsFinal ==
    [][call'.op = "get_data" =>
        /\ \A i \in 1..Len(log') :
              IsSeriesHit(log'[i]) =>
                  LET stored == DecodeAndReturn(Self, JsonLoad(disk[log'[i].file]))
                  IN  /\ \A j \in 1..Len(log') :
                            ~IsRemote(log'[j]) /\ ~IsSleep(log'[j])
                      /\ disk'[log'[i].file] = disk[log'[i].file]
                      /\ ret' = stored.ret
                      /\ exc' = stored.exc
        /\ \A i \in 1..Len(log') :
              (IsWrite(log'[i]) /\ IsSeriesFile(log'[i])) =>
                  /\ log'[i].file \in DOMAIN disk'
                  /\ exc' = DecodeAndReturn(Self, JsonLoad(disk'[log'[i].file])).exc
                  /\ ret' = DecodeAndReturn(Self, JsonLoad(disk'[log'[i].file])).ret]_vars

(***************************************************************************)
(* C16: a get_all_data call in which a get_data fails ends there with that *)
(* failure: it returns no list, the failing step (the authorization or     *)
(* remote call that raised, or the sleep after the write of a null         *)
(* payload, whose decoding raises) is the last event of the call, so no    *)
(* get_data, remote call or sleep for a later station follows it, and the  *)
(* get_data calls begun are those of the first k stations, in order.  A    *)
(* call that returns has one result per station.                           *)
(***************************************************************************)
NullWrite(p) ==
    /\ IsWrite(log[p])
    /\ IsSeriesFile(log[p])
    /\ JsonLoad(disk[log[p].file]) = PyNone

C16_BulkAbortsAtFirstFailure ==
    (call.op = "get_all_data" /\ GetDataMarks # <<>>) =>
        /\ exc # "none" => ret = RetNothing
        /\ exc = "none" => ret.tag = "list" /\ Len(ret.val) = Len(stations.val)
        /\ Len(GetDataMarks) <= Len(stations.val)
        /\ \A i \in 1..Len(GetDataMarks) : GetDataMarks[i].api = <<stations.val[i].id>>
        /\ \A p \in 1..Len(log) :
              /\ IsAuth(log[p]) =>
                    IF p = Len(log) THEN exc = "AuthFailure" ELSE IsApi(log[p + 1])
              /\ IsGetMeasure(log[p]) =>
                    IF p = Len(log) THEN exc = "ApiError" ELSE IsWrite(log[p + 1])
              /\ NullWrite(p) =>
                    /\ p + 1 = Len(log)
                    /\ IsSleep(log[p + 1])
                    /\ exc = "TypeError"
        /\ exc # "none" =>
              \/ IsRemote(log[Len(log)])
              \/ IsSleep(log[Len(log)]) /\ NullWrite(Len(log) - 1)

\* a bulk fetch has served the first station and failed in the remote call for the second
C16_Witness ==
    /\ call.op = "get_all_data"
    /\ exc = "ApiError"
    /\ ret = RetNothing
    /\ Len(GetDataMarks) = 2
    /\ Len(stations.val) = 2
    /\ IsGetMeasure(log[Len(log)])

(***************************************************************************)
(* C17, as stated: decoding ends for every payload, and a block with       *)
(* step_time 0 is dealt with by a guard of the decoding itself: no         *)
(* decoding ends in an exception of the range expansion.                   *)
(***************************************************************************)
C17_ZeroStepGuarded ==
    /\ decoded = NotDecoded => ENABLED DecodePayload
    /\ decoded # NotDecoded => decoded.exc = "none"

(***************************************************************************)
(* C17, amended: decoding ends for every payload.  It ends with a series   *)
(* when no block has step_time 0; otherwise it ends at the first such      *)
(* block, whatever the number of its values, with the ValueError of        *)
(* range(), holding the samples of the blocks before it.                   *)
(***************************************************************************)
ZeroStepBlocks == {i \in 1..Len(payload) : IsStepped(payload[i]) /\ payload[i].step_time = 0}

C17_DecodingEnds ==
    /\ decoded = NotDecoded => ENABLED DecodePayload
    /\ decoded # NotDecoded =>
          IF ZeroStepBlocks = {} THEN decoded.exc = "none"
          ELSE LET k == CHOOSE i \in ZeroStepBlocks : \A j \in ZeroStepBlocks : i <= j
                   before == Decode(PyList(SubSeq(payload, 1, k - 1)))
               IN  /\ decoded.exc = RangeStepZero
                   /\ decoded.times = before.times
                   /\ decoded.values = before.values

\* a payload whose second block has step_time 0 and two values has been decoded
C17_Witness ==
    /\ Len(payload) = 2
    /\ ZeroStepBlocks = {2}
    /\ Len(payload[2].value) = 2
    /\ Len(payload[1].value) > 0
    /\ decoded.exc = RangeStepZero
    /\ Len(decoded.times) > 0

(***************************************************************************)
(* C18: module resolution leaves the id of the first module, in the order  *)
(* of the station's "measures" mapping, whose type list contains the       *)
(* requested measurement type, and None exactly when no module's type list *)
(* contains it; it ends for every station whose modules have a type list.  *)
(***************************************************************************)
MatchingModules ==
    {i \in 1..Len(probe.station.measures) :
        \E j \in 1..Len(probe.station.measures[i].type) :
            probe.station.measures[i].type[j] = probe.measurement_type}

C18_FirstMatchingModule ==
    /\ resolved = NotResolved => ENABLED ResolveProbe
    /\ resolved # NotResolved =>
          /\ resolved = ModuleNone <=> MatchingModules = {}
          /\ \A i \in MatchingModules :
                (\A j \in MatchingModules : i <= j) =>
                    resolved = probe.station.measures[i].mid

\* two modules list the type; the first of the mapping, not of the sorted ids, was taken
C18_Witness ==
    /\ MatchingModules = {1, 2}
    /\ probe.station.measures[1].mid = "m3"
    /\ probe.station.measures[2].mid = "m1"
    /\ resolved = "m3"

(***************************************************************************)
(* C19: a get_all_data call that aborts at station k leaves a series cache *)
(* entry holding a payload for every station before k.  A series entry     *)
(* that holds a payload stays as it is in every later get_data and         *)
(* get_all_data call, which issue no 'getmeasure' and no write for its     *)
(* key and go from reading it straight on to the next station, without a   *)
(* sleep.  No call issues two 'getmeasure' calls for one key.  So, over    *)
(* any number of aborted and repeated runs, the 'getmeasure' of a          *)
(* station/type pair returns a payload at most once.                       *)
(***************************************************************************)
HoldsPayload(d, f) == f \in DOMAIN d /\ f.kind = "series" /\ JsonLoad(d[f]) # PyNone

KeyOf(e) == <<e.api[2], Str(e.api[3]), e.api[4]>>

C19_FetchedPairsStay ==
    [][call'.op \in {"get_data", "get_all_data"} =>
        /\ (call'.op = "get_all_data" /\ exc' # "none") =>
              \A i \in 1..(Len(GetDataMarks') - 1) :
                  HoldsPayload(disk', SeriesFile(stations'.val[i].id,
                                                 ResolveModule(stations'.val[i],
                                                               call'.measurement_type),
                                                 call'.measurement_type))
        /\ \A f \in DOMAIN disk :
              HoldsPayload(disk, f) =>
                  /\ f \in DOMAIN disk'
                  /\ disk'[f] = disk[f]
                  /\ \A p \in 1..Len(log') :
                        /\ IsGetMeasure(log'[p]) => KeyOf(log'[p]) # f.parts
                        /\ IsWrite(log'[p]) => log'[p].file # f
                        /\ (log'[p].ev = "hit" /\ log'[p].file = f) =>
                              p = Len(log') \/ log'[p + 1].ev = "get_data"
        /\ \A p, q \in 1..Len(log') :
              (IsGetMeasure(log'[p]) /\ IsGetMeasure(log'[q])
                  /\ KeyOf(log'[p]) = KeyOf(log'[q])) => p = q]_vars

\* a bulk fetch has read the first station's entry, fetched the second station's and failed
C19_Witness ==
    /\ call.op = "get_all_data"
    /\ exc # "none"
    /\ Len(GetDataMarks) = 2
    /\ Count(IsSeriesHit) = 1
    /\ Count(IsGetMeasure) = 1
    /\ \A p \in Positions(IsSeriesHit), q \in Positions(IsGetMeasure) :
          /\ p < q
          /\ HoldsPayload(disk, log[p].file)
          /\ KeyOf(log[q]) # log[p].file.parts

(***************************************************************************)
(* C20: whenever the cache directory holds the station list and, for a     *)
(* station of it and a measurement type, a series entry with a payload,    *)
(* get_data for that station and type in a new session on this directory   *)
(* does the same whatever the session's date range is: it issues no remote *)
(* call and returns the decoding of the stored payload.                    *)
(***************************************************************************)
SessionFrom(day) ==
    [disk |-> disk, stations |-> PyNone, autorization |-> PyNone,
     authorization |-> Unset, startdate |-> day, enddate |-> EndDay,
     authCalls |-> 0, log |-> <<>>]

Observed(S) == {[ret |-> r.ret, exc |-> r.exc, log |-> r.m.log, disk |-> r.m.disk] : r \in S}

CachedPair(station_id, measurement_type) ==
    /\ StationsCached
    /\ JsonLoad(disk[StationsFile(area)]) # PyNone
    /\ HasStation(JsonLoad(disk[StationsFile(area)]), station_id)
    /\ HoldsPayload(disk,
                    SeriesFile(station_id,
                               ResolveModule(StationsWithId(JsonLoad(disk[StationsFile(area)]).val,
                                                            station_id)[1],
                                             measurement_type),
                               measurement_type))

C20_HitIgnoresDateRange ==
    \A station_id \in StationIds, measurement_type \in MeasurementTypes,
       ratelimit \in {PyNone, PyNum(RateLimit)} :
        CachedPair(station_id, measurement_type) =>
            \A d1, d2 \in StartDays :
                LET o1 == Observed(get_data(SessionFrom(d1), station_id,
                                            measurement_type, ratelimit))
                    o2 == Observed(get_data(SessionFrom(d2), station_id,
                                            measurement_type, ratelimit))
                IN  /\ o1 = o2
                    /\ \A o \in o1 :
                          /\ o.disk = disk
                          /\ \A p \in 1..Len(o.log) :
                                ~IsRemote(o.log[p]) /\ ~IsSleep(o.log[p])
                          /\ \E p \in 1..Len(o.log) :
                                /\ IsSeriesHit(o.log[p])
                                /\ o.ret = DecodeAndReturn(Self, JsonLoad(disk[o.log[p].file])).ret
                                /\ o.exc = "none"

\* a session whose range starts on day 16 has been served a non-empty series from the cache
C20_Witness ==
    /\ call.op = "get_data"
    /\ startdate = 16
    /\ CachedPair(call.station_id, call.measurement_type)
    /\ Count(IsSeriesHit) = 1
    /\ Count(IsRemote) = 0
    /\ exc = "none"
    /\ ret # EmptySeries

====
